---- MODULE Spec2Model ----
(***************************************************************************)
(* A model of the VMware snapshot parser (source/vmsn.py) and of the       *)
(* address space built on it (interfaces/volatility.py).                   *)
(*                                                                         *)
(* The snapshot is a sequence of bytes (0..255) behind a file object with  *)
(* a cursor.  Every method of the parser is an operator over the bytes and *)
(* the cursor, computed as the code computes it; an exception a method     *)
(* raises is a result whose kind is the exception's name.                  *)
(*                                                                         *)
(* Python integers are unbounded and TLC's are 32-bit, so an unpacked      *)
(* integer is held as its 16-bit halves, least significant first           *)
(* (0xBED2BED0 is <<48848, 48850>>), and Val turns one into a number where  *)
(* the code computes with it.                                              *)
(***************************************************************************)
EXTENDS Integers, Sequences, FiniteSets, TLC

VARIABLES
    built,     \* what the snapshot was written from: magic, groups, cut
    file,      \* the bytes behind fh
    mode,      \* fh.mode
    pos,       \* fh's cursor (fh.tell())
    parser,    \* the Parser object: state, version, offset_size, group_count
    last,      \* the last call made on the parser and what it returned or raised
    vas        \* the VMWareSnapshotFile object: state, runs, dtb

vars == <<built, file, mode, pos, parser, last, vas>>

-----------------------------------------------------------------------------
(* Program constants *)

HEADER_SIZE == 12
GROUP_SIZE == 80
GROUP_NAME_SIZE == 64
PAGE_SIZE == 4096
\* a record's flags hold a 2-bit index depth: (flags>>6)&0x03
MaxDims == 3

(* Bounds of the model *)

\* lookups are requested with index values 0..MaxIndex
MaxIndex == 1
\* absolute reads and seeks reach up to MaxPast bytes past the end of the file
MaxPast == 2

-----------------------------------------------------------------------------
(* Helpers *)

Min(a, b) == IF a < b THEN a ELSE b

RECURSIVE Halves(_)
\* the 16-bit halves of a little-endian string of even length, low half first
Halves(s) == IF Len(s) < 2 THEN <<>>
             ELSE <<s[1] + 256 * s[2]>> \o Halves(SubSeq(s, 3, Len(s)))

RECURSIVE Val(_)
\* the number a sequence of halves stands for
Val(h) == IF h = <<>> THEN 0 ELSE h[1] + 65536 * Val(Tail(h))

\* Python's == between a str and a str, or an int and an int; a str never equals an int
PyEq(a, b) == a.t = b.t /\ a.v = b.v

Str(s) == [t |-> "str", v |-> s]
PyInt(n) == [t |-> "int", v |-> n]

-----------------------------------------------------------------------------
(* The file object and Parser's reading utilities.                          *)
(* A step of a method that uses an earlier step's result several times is    *)
(* an operator of its own, taking that result as a parameter.                *)

\* fh.read(size) at cursor p: the bytes there are, and the cursor after them
read(f, p, size) ==
    IF p >= Len(f) THEN [data |-> <<>>, pos |-> p]
    ELSE [data |-> SubSeq(f, p + 1, Min(p + size, Len(f))),
          pos  |-> Min(p + size, Len(f))]

\* struct.unpack('=B' | '=I' | '=Q', string): a string of another length raises
unpack(size, string) ==
    IF Len(string) # size THEN [err |-> "struct.error", val |-> <<>>]
    ELSE [err |-> "",
          val |-> IF size = 1 THEN string[1] ELSE Halves(string)]

\* a reada that forgets to seek back
reada_norestore(f, p, addr, size) == read(f, addr, size)

\* Parser.reada: curr = tell(); seek(addr); data = read(size); seek(curr)
reada(f, p, addr, size) ==
    LET curr == p
    IN  [data |-> read(f, addr, size).data, pos |-> curr]

\* the unpacked value of the string a read returned, and the cursor after the read
unpack_read(size, r) ==
    [err |-> unpack(size, r.data).err, val |-> unpack(size, r.data).val, pos |-> r.pos]

\* Parser.read_byte / read_long / read_long_long / read_offset at the cursor
read_int(f, p, size) == unpack_read(size, read(f, p, size))

\* Parser.reada_byte / reada_long / reada_long_long / reada_offset
reada_int(f, p, addr, size) == unpack_read(size, reada(f, p, addr, size))

-----------------------------------------------------------------------------
(* Parser.__init__ *)

MAGIC_V0 == <<48848, 48850>>  \* 0xbed2bed0
MAGIC_V1 == <<47825, 47825>>  \* 0xbad1bad1
MAGIC_V2 == <<48850, 48850>>  \* 0xbed2bed2
MAGIC_V3 == <<48851, 48851>>  \* 0xbed3bed3

ParserObj(state, version, offset_size, group_count, p) ==
    [state |-> state, version |-> version, offset_size |-> offset_size,
     group_count |-> group_count, pos |-> p]

\* __init__ raising kind with the cursor at p
Failed(kind, p) == ParserObj(kind, -1, 0, <<>>, p)

\* a version table that takes 0xbed2bed2 for version 1 and 0xbad1bad1 for version 2
version_of_swapped(magic) ==
    IF magic = MAGIC_V0 THEN 0
    ELSE IF magic = MAGIC_V2 THEN 1
    ELSE IF magic = MAGIC_V1 THEN 2
    ELSE IF magic = MAGIC_V3 THEN 3
    ELSE -1

\* the version a magic resolves to, -1 for "Header signature invalid"
version_of(magic) ==
    IF magic = MAGIC_V0 THEN 0
    ELSE IF magic = MAGIC_V1 THEN 1
    ELSE IF magic = MAGIC_V2 THEN 2
    ELSE IF magic = MAGIC_V3 THEN 3
    ELSE -1

\* "b" in fh.mode.lower()
IsBinary(m) == m \in {"rb", "r+b", "wb", "ab"}

\* self.group_count = self.reada_long(8)
init_group_count(version, offset_size, group_count) ==
    IF group_count.err # "" THEN Failed(group_count.err, group_count.pos)
    ELSE ParserObj("ok", version, offset_size, group_count.val, group_count.pos)

\* self.offset_size = 4 if self.version == 0 else 8
init_offset_size(f, p, version) ==
    IF version = -1 THEN Failed("ParserException", p)
    ELSE init_group_count(version, IF version = 0 THEN 4 ELSE 8, reada_int(f, p, 8, 4))

\* the if/elif chain over magic
init_version(f, magic) ==
    IF magic.err # "" THEN Failed(magic.err, magic.pos)
    ELSE init_offset_size(f, magic.pos, version_of(magic.val))

\* Parser.__init__: the Parser it leaves, or the exception it raises, and the cursor
Parser_init(f, m, p) ==
    IF ~IsBinary(m) THEN Failed("ValueError", p)
    ELSE init_version(f, reada_int(f, p, 0, 4))

-----------------------------------------------------------------------------
(* Parser.search_group, Parser.__getitem__, Parser.__contains__,
   Group.__init__ *)

GroupRes(kind, index, offset, name, tags_offset, p) ==
    [kind |-> kind, index |-> index, offset |-> offset, name |-> name,
     tags_offset |-> tags_offset, pos |-> p]

\* where the NUL bytes are from the cursor p on
NulsFrom(f, p) == { k \in (p + 1)..Len(f) : f[k] = 0 }

\* the first of them
FirstNul(f, p) == CHOOSE k \in NulsFrom(f, p) : \A j \in NulsFrom(f, p) : k <= j

\* the "while True" loop of search_group: ch = self.read(1) is added to the name
\* until it is a NUL, whatever the length of the name.  With no NUL ahead the
\* loop reaches the end of the file, where read(1) returns '' for ever, and
\* never ends.
read_group_name(f, p, group_name) ==
    IF NulsFrom(f, p) = {}
    THEN [loops |-> TRUE, name |-> group_name \o read(f, p, Len(f)).data,
          pos |-> read(f, p, Len(f)).pos]
    ELSE [loops |-> FALSE, name |-> group_name \o SubSeq(f, p + 1, FirstNul(f, p) - 1),
          pos |-> FirstNul(f, p)]

RECURSIVE search_group_from(_, _, _, _, _)
\* the comparison that ends an iteration of search_group's for loop
group_match(f, group_index, group_count, group, nm) ==
    IF nm.loops
    THEN GroupRes("loops", group_index, HEADER_SIZE + group_index * GROUP_SIZE,
                  nm.name, 0, nm.pos)
    ELSE IF PyEq(Str(nm.name), group) \/ PyEq(PyInt(group_index), group)
    THEN GroupRes("found", group_index, HEADER_SIZE + group_index * GROUP_SIZE,
                  nm.name, 0, nm.pos)
    ELSE search_group_from(f, nm.pos, group_index + 1, group_count, group)

\* the iterations group_index .. group_count-1 of search_group's for loop, the
\* cursor being at p
search_group_from(f, p, group_index, group_count, group) ==
    IF group_index >= group_count THEN GroupRes("None", -1, 0, <<>>, 0, p)
    ELSE group_match(f, group_index, group_count, group,
                     read_group_name(f, HEADER_SIZE + group_index * GROUP_SIZE, <<>>))

\* Parser.search_group(group)
search_group(f, p, P, group) ==
    search_group_from(f, p, 0, Val(P.group_count), group)

\* Group.__init__: self.tags_offset = reada_long_long(self.offset + GROUP_NAME_SIZE)
Group_init(group_data, tags_offset) ==
    IF tags_offset.err # ""
    THEN GroupRes(tags_offset.err, group_data.index, group_data.offset,
                  group_data.name, 0, tags_offset.pos)
    ELSE GroupRes("Group", group_data.index, group_data.offset, group_data.name,
                  Val(tags_offset.val), tags_offset.pos)

\* Parser.__getitem__ once search_group has returned
getitem_group(f, group_data) ==
    IF group_data.kind = "loops" THEN group_data
    ELSE IF group_data.kind = "None"
    THEN GroupRes("KeyError", -1, 0, <<>>, 0, group_data.pos)
    ELSE Group_init(group_data,
                    reada_int(f, group_data.pos, group_data.offset + GROUP_NAME_SIZE, 8))

\* Parser.__getitem__: the Group, or KeyError when search_group returns None
Parser_getitem(f, p, P, group_ident) ==
    getitem_group(f, search_group(f, p, P, group_ident))

\* Parser.__contains__ once search_group has returned:
\* (self.search_group(group_ident) == None)
contains_group(group_data) ==
    [kind |-> IF group_data.kind = "loops" THEN "loops" ELSE "bool",
     val  |-> (group_data.kind = "None"),
     pos  |-> group_data.pos]

\* Parser.__contains__
Parser_contains(f, p, P, group_ident) ==
    contains_group(search_group(f, p, P, group_ident))

-----------------------------------------------------------------------------
(* Group.search_tag *)

TagRes(kind, name, indices, data_offset, data_size, data_mem_size, compressed, p) ==
    [kind |-> kind, name |-> name, indices |-> indices,
     data_offset |-> data_offset, data_size |-> data_size,
     data_mem_size |-> data_mem_size, compressed |-> compressed, pos |-> p]

\* an exception (or None) leaving a lookup with the cursor at p
Raise(kind, p) == TagRes(kind, <<>>, <<>>, 0, 0, 0, FALSE, p)

RECURSIVE read_indices(_, _, _, _)
\* tag_indices.append(self.parser.read_long())
append_index(f, depth, tag_indices, r) ==
    IF r.err # "" THEN [err |-> r.err, val |-> tag_indices, pos |-> r.pos]
    ELSE read_indices(f, r.pos, depth - 1, Append(tag_indices, Val(r.val)))

\* for _ in range(0, tag_indices_depth): tag_indices.append(read_long())
read_indices(f, p, depth, tag_indices) ==
    IF depth = 0 THEN [err |-> "", val |-> tag_indices, pos |-> p]
    ELSE append_index(f, depth, tag_indices, read_int(f, p, 4))

SizeRes(err, data_size, data_mem_size, compressed, p) ==
    [err |-> err, data_size |-> data_size, data_mem_size |-> data_mem_size,
     compressed |-> compressed, pos |-> p]

\* data_mem_size = read_offset(); unkwnown = read(2)
long_mem_size(f, compressed, data_size, dm) ==
    IF dm.err # "" THEN SizeRes(dm.err, 0, 0, FALSE, dm.pos)
    ELSE SizeRes("", data_size, Val(dm.val), compressed, read(f, dm.pos, 2).pos)

\* data_size = read_offset()
long_data_size(f, offset_size, compressed, ds) ==
    IF ds.err # "" THEN SizeRes(ds.err, 0, 0, FALSE, ds.pos)
    ELSE long_mem_size(f, compressed, Val(ds.val), read_int(f, ds.pos, offset_size))

\* data_size, data_mem_size and compressed of the record whose flags were read,
\* with the cursor after the record's header
tag_sizes(f, p, offset_size, flags) ==
    IF flags % 64 = 62 \/ flags % 64 = 63
    THEN long_data_size(f, offset_size, flags % 64 = 63, read_int(f, p, offset_size))
    ELSE SizeRes("", flags % 64, flags % 64, FALSE, p)

RECURSIVE scan_tags(_, _, _, _, _, _, _)
\* the end of a turn of search_tag's loop: the next record's flags and
\* name_size are read, and the record just decoded is compared with the request
scan_match(f, offset_size, tag, indices, name, tag_indices, sz, flags, name_size) ==
    IF name_size.err # "" THEN Raise(name_size.err, name_size.pos)
    ELSE IF ~PyEq(Str(name), tag)
    THEN scan_tags(f, offset_size, name_size.pos, flags, name_size.val, tag, indices)
    ELSE IF tag_indices = indices
    THEN TagRes("Tag", name, tag_indices, sz.pos, sz.data_size, sz.data_mem_size,
                sz.compressed, name_size.pos)
    ELSE IF SubSeq(tag_indices, 1, Min(Len(indices), Len(tag_indices))) = indices
    THEN TagRes("MetaTag", name, indices, 0, 0, 0, FALSE, name_size.pos)
    \* the else branch formats its debug line from "indexes", a name that is
    \* not defined: NameError
    ELSE Raise("NameError", name_size.pos)

\* a scan that compares the record just decoded though the read of the next
\* record's flags came up short
scan_next_unread(f, offset_size, tag, indices, name, tag_indices, sz, flags) ==
    IF flags.err # ""
    THEN scan_match(f, offset_size, tag, indices, name, tag_indices, sz, 0,
                    [err |-> "", val |-> 0, pos |-> flags.pos])
    ELSE scan_match(f, offset_size, tag, indices, name, tag_indices, sz, flags.val,
                    read_int(f, flags.pos, 1))

\* flags = read_byte() of the next record; name_size = read_byte()
scan_next(f, offset_size, tag, indices, name, tag_indices, sz, flags) ==
    IF flags.err # "" THEN Raise(flags.err, flags.pos)
    ELSE scan_match(f, offset_size, tag, indices, name, tag_indices, sz, flags.val,
                    read_int(f, flags.pos, 1))

\* data_offset = tell(); seek(data_size, os.SEEK_CUR); flags = read_byte()
scan_data(f, offset_size, tag, indices, name, tag_indices, sz) ==
    IF sz.err # "" THEN Raise(sz.err, sz.pos)
    ELSE scan_next(f, offset_size, tag, indices, name, tag_indices, sz,
                   read_int(f, sz.pos + sz.data_size, 1))

\* the record's sizes, once its indices are read
scan_sizes(f, offset_size, flags, tag, indices, name, tix) ==
    IF tix.err # "" THEN Raise(tix.err, tix.pos)
    ELSE scan_data(f, offset_size, tag, indices, name, tix.val,
                   tag_sizes(f, tix.pos, offset_size, flags))

\* the record's indices, once its name is read: depth = (flags>>6)&0x03
scan_indices(f, offset_size, flags, tag, indices, name) ==
    scan_sizes(f, offset_size, flags, tag, indices, name.data,
               read_indices(f, name.pos, (flags \div 64) % 4, <<>>))

\* the while loop of search_tag, entered with the cursor after the flags and
\* name_size bytes of a record
scan_tags(f, offset_size, p, flags, name_size, tag, indices) ==
    IF flags = 0 /\ name_size = 0 THEN Raise("None", p)
    ELSE scan_indices(f, offset_size, flags, tag, indices, read(f, p, name_size))

\* name_size = read_byte() of the first record
first_name_size(f, offset_size, tag, indices, flags, name_size) ==
    IF name_size.err # "" THEN Raise(name_size.err, name_size.pos)
    ELSE scan_tags(f, offset_size, name_size.pos, flags, name_size.val, tag, indices)

\* flags = read_byte() of the first record
first_flags(f, offset_size, tag, indices, flags) ==
    IF flags.err # "" THEN Raise(flags.err, flags.pos)
    ELSE first_name_size(f, offset_size, tag, indices, flags.val,
                         read_int(f, flags.pos, 1))

\* Group.search_tag(tag, *indices) on the group whose stream starts at tags_offset
search_tag(f, offset_size, tags_offset, tag, indices) ==
    first_flags(f, offset_size, tag, indices, read_int(f, tags_offset, 1))

-----------------------------------------------------------------------------
(* Group.__getitem__, Group.__contains__, MetaTag.__getitem__,
   MetaTag.__contains__ *)

\* "if not tag_data: raise": None becomes the exception kind
found_or(kind, tag_data) ==
    IF tag_data.kind = "None" THEN Raise(kind, tag_data.pos) ELSE tag_data

\* "is not None" / "not (... == None)" of what search_tag returned
not_None(tag_data) ==
    IF tag_data.kind \in {"None", "Tag", "MetaTag"}
    THEN [kind |-> "bool", val |-> (tag_data.kind # "None"), pos |-> tag_data.pos]
    ELSE [kind |-> tag_data.kind, val |-> FALSE, pos |-> tag_data.pos]

\* Group.__getitem__(tag_ident): a Tag, a MetaTag, AttributeError when
\* search_tag returns None, or the exception search_tag raised
Group_getitem(f, offset_size, group, tag_ident) ==
    found_or("AttributeError",
             search_tag(f, offset_size, group.tags_offset, tag_ident, <<>>))

\* Group.__contains__(tag_ident): (self.search_tag(tag_ident) is not None)
Group_contains(f, offset_size, group, tag_ident) ==
    not_None(search_tag(f, offset_size, group.tags_offset, tag_ident, <<>>))

\* MetaTag.__getitem__(tag_index):
\* self.group.search_tag(self.name, *(self.indices + (tag_index,)))
MetaTag_getitem(f, offset_size, group, meta, tag_index) ==
    found_or("KeyError",
             search_tag(f, offset_size, group.tags_offset, Str(meta.name),
                        Append(meta.indices, tag_index)))

\* MetaTag.__contains__(tag_index):
\* not (self.group.search_tag(*(self.indices + (tag_index,))) == None)
\* The tag's name is not passed: the first of the indices is searched for as the
\* name, and the others as the indices.
MetaTag_contains(f, offset_size, group, meta, tag_index) ==
    not_None(search_tag(f, offset_size, group.tags_offset,
                        PyInt(Head(Append(meta.indices, tag_index))),
                        Tail(Append(meta.indices, tag_index))))

RECURSIVE subscript(_, _, _, _, _)
\* node[i1]...[in]: one MetaTag.__getitem__ per index.  A Tag has no
\* __getitem__, so subscripting one raises AttributeError.
subscript(f, offset_size, group, node, tag_indices) ==
    IF tag_indices = <<>> THEN node
    ELSE IF node.kind = "MetaTag"
    THEN subscript(f, offset_size, group,
                   MetaTag_getitem(f, offset_size, group, node, Head(tag_indices)),
                   Tail(tag_indices))
    ELSE IF node.kind = "Tag" THEN Raise("AttributeError", node.pos)
    ELSE node

\* group[tag_ident][i1]...[in], group being what parser[group_ident] gave
lookup_in(f, offset_size, group, tag_ident, tag_indices) ==
    IF group.kind # "Group" THEN Raise(group.kind, group.pos)
    ELSE subscript(f, offset_size, group,
                   Group_getitem(f, offset_size, group, tag_ident), tag_indices)

\* parser[group_ident][tag_ident][i1]...[in]
lookup(f, p, P, group_ident, tag_ident, tag_indices) ==
    lookup_in(f, P.offset_size, Parser_getitem(f, p, P, group_ident), tag_ident,
              tag_indices)

-----------------------------------------------------------------------------
(* Tag.read, Tag.read_offset, Tag.read_long_long, Tag.read_long, Tag.read_byte *)

ReadRes(kind, val, p) == [kind |-> kind, val |-> val, pos |-> p]

\* Tag.read(): self.parser.read(self.data_offset + offset, size) passes two
\* arguments to Parser.read(self, size): TypeError on every call
Tag_read(f, p, P, tag) == ReadRes("TypeError", <<>>, p)

\* Tag.read_offset(): the size check reads self.parser._offset_size, an
\* attribute Parser never sets (it sets offset_size): AttributeError on every call
Tag_read_offset(f, p, P, tag) == ReadRes("AttributeError", <<>>, p)

\* the value a reada_* returned, or the struct.error it raised
read_value(r) ==
    IF r.err # "" THEN ReadRes(r.err, <<>>, r.pos) ELSE ReadRes("int", r.val, r.pos)

\* Tag.read_byte (width 1), read_long (4), read_long_long (8)
Tag_read_int(f, p, tag, width) ==
    IF tag.data_size < width THEN ReadRes("TypeError", <<>>, p)
    ELSE read_value(reada_int(f, p, tag.data_offset, width))

Tag_read_byte(f, p, tag) == Tag_read_int(f, p, tag, 1)
Tag_read_long(f, p, tag) == Tag_read_int(f, p, tag, 4)
Tag_read_long_long(f, p, tag) == Tag_read_int(f, p, tag, 8)

-----------------------------------------------------------------------------
(* Snapshots the model starts from, laid out as the parser decodes them: a   *)
(* 12-byte header, an 80-byte slot per group, then each group's tag stream.  *)

RECURSIVE LE(_, _)
\* n as w little-endian bytes
LE(n, w) == IF w = 0 THEN <<>> ELSE <<n % 256>> \o LE(n \div 256, w - 1)

Zeros(n) == [i \in 1..n |-> 0]

RECURSIVE Flat(_)
Flat(ss) == IF ss = <<>> THEN <<>> ELSE Head(ss) \o Flat(Tail(ss))

\* a record: form is "short" (size in the flags), "long" (62) or "compressed" (63)
Rec(name, idx, payload, form) ==
    [name |-> name, idx |-> idx, payload |-> payload, form |-> form]

RecBytes(r, osz) ==
    LET n   == Len(r.payload)
        enc == IF r.form = "short" THEN n ELSE IF r.form = "long" THEN 62 ELSE 63
    IN  <<Len(r.idx) * 64 + enc, Len(r.name)>> \o r.name
        \o Flat([i \in 1..Len(r.idx) |-> LE(r.idx[i], 4)])
        \o (IF r.form = "short" THEN <<>> ELSE LE(n, osz) \o LE(n, osz) \o <<0, 0>>)
        \o r.payload

\* a group: its name, its records, and whether its stream ends with the terminator
Grp(name, tags, term) == [name |-> name, tags |-> tags, term |-> term]

StreamBytes(g, osz) ==
    Flat([i \in 1..Len(g.tags) |-> RecBytes(g.tags[i], osz)])
    \o (IF g.term THEN <<0, 0>> ELSE <<>>)

RECURSIVE StreamOffset(_, _, _)
\* where the i-th group's stream starts
StreamOffset(gs, osz, i) ==
    IF i = 1 THEN HEADER_SIZE + GROUP_SIZE * Len(gs)
    ELSE StreamOffset(gs, osz, i - 1) + Len(StreamBytes(gs[i - 1], osz))

Snapshot(magic, osz, gs) ==
    magic \o <<0, 0, 0, 0>> \o LE(Len(gs), 4)
    \o Flat([i \in 1..Len(gs) |->
               gs[i].name \o Zeros(GROUP_NAME_SIZE - Len(gs[i].name))
               \o LE(StreamOffset(gs, osz, i), 8) \o Zeros(8)])
    \o Flat([i \in 1..Len(gs) |-> StreamBytes(gs[i], osz)])

n_memory        == <<109, 101, 109, 111, 114, 121>>
n_Memory        == <<77, 101, 109, 111, 114, 121>>
n_cpu           == <<99, 112, 117>>
n_CR            == <<67, 82>>
n_regionsCount  == <<114, 101, 103, 105, 111, 110, 115, 67, 111, 117, 110, 116>>
n_regionPPN     == <<114, 101, 103, 105, 111, 110, 80, 80, 78>>
n_regionPageNum == <<114, 101, 103, 105, 111, 110, 80, 97, 103, 101, 78, 117, 109>>
n_regionSize    == <<114, 101, 103, 105, 111, 110, 83, 105, 122, 101>>

\* a group name that fills the 64-byte name field and leaves no room for a NUL
n_full          == [i \in 1..GROUP_NAME_SIZE |-> 97]

RAM == <<0, 1, 2, 3, 4, 5, 6, 7>>
CR3 == <<0, 48, 26, 0>>

MemoryTag == Rec(n_Memory, <<0, 0>>, RAM, "long")
Count(n)  == Rec(n_regionsCount, <<>>, LE(n, 4), "short")
Region(name, i, n) == Rec(name, <<i>>, LE(n, 4), "short")

cpu_CR3only == Grp(n_cpu, <<Rec(n_CR, <<0, 3>>, CR3, "short")>>, TRUE)
cpu_CR0_CR3 == Grp(n_cpu, <<Rec(n_CR, <<0, 0>>, <<1, 0, 0, 128>>, "short"),
                            Rec(n_CR, <<0, 3>>, CR3, "short"),
                            Rec(n_CR, <<1, 3>>, <<0, 64, 26, 0>>, "short")>>, TRUE)

Bodies ==
    { \* one Memory[0][0], one CR[0][3]
      <<Grp(n_memory, <<MemoryTag>>, TRUE), cpu_CR3only>>,
      \* one Memory[0][0]; CR[0][0] before CR[0][3]
      <<Grp(n_memory, <<MemoryTag>>, TRUE), cpu_CR0_CR3>>,
      \* the memory group alone
      <<Grp(n_memory, <<MemoryTag>>, TRUE)>>,
      \* one group, its name 64 bytes long
      <<Grp(n_full, <<MemoryTag>>, TRUE)>>,
      \* regionsCount = 0
      <<Grp(n_memory, <<Count(0), MemoryTag>>, TRUE), cpu_CR3only>>,
      \* one region, every component present
      <<Grp(n_memory, <<Count(1), Region(n_regionPPN, 0, 0),
                        Region(n_regionPageNum, 0, 0), Region(n_regionSize, 0, 2),
                        MemoryTag>>, TRUE), cpu_CR3only>>,
      \* two regions, every component present; CR[0][0] before CR[0][3]
      <<Grp(n_memory, <<Count(2),
                        Region(n_regionPPN, 0, 0), Region(n_regionPPN, 1, 256),
                        Region(n_regionPageNum, 0, 0), Region(n_regionPageNum, 1, 2),
                        Region(n_regionSize, 0, 2), Region(n_regionSize, 1, 1),
                        MemoryTag>>, TRUE), cpu_CR0_CR3>>,
      \* two regions counted, regionPPN[1] missing
      <<Grp(n_memory, <<Count(2),
                        Region(n_regionPPN, 0, 0),
                        Region(n_regionPageNum, 0, 0), Region(n_regionPageNum, 1, 2),
                        Region(n_regionSize, 0, 2), Region(n_regionSize, 1, 1),
                        MemoryTag>>, TRUE), cpu_CR3only>>,
      \* Memory[0][1] before Memory[0][0]; CR[0][0] before CR[0][3]
      <<Grp(n_memory, <<Rec(n_Memory, <<0, 1>>, <<9, 9>>, "short"), MemoryTag>>, TRUE),
        cpu_CR0_CR3>>,
      \* payloads of 0, 1, 2 and 8 bytes, a compressed one, a tag without
      \* indices and one with three; the cpu stream has no terminator
      <<Grp(n_memory, <<Rec(n_regionsCount, <<>>, <<7, 0>>, "short"),
                        Rec(n_Memory, <<1>>, <<>>, "short"),
                        Rec(n_CR, <<1, 0, 1>>, <<5>>, "compressed")>>, TRUE),
        Grp(n_cpu, <<Rec(n_CR, <<0>>, RAM, "short"),
                     Rec(n_Memory, <<1, 1>>, CR3, "long")>>, FALSE)>> }

Magics ==
    { <<208, 190, 210, 190>>,   \* 0xbed2bed0
      <<209, 186, 209, 186>>,   \* 0xbad1bad1
      <<210, 190, 210, 190>>,   \* 0xbed2bed2
      <<211, 190, 211, 190>>,   \* 0xbed3bed3
      <<222, 173, 190, 239>>,   \* not a magic
      <<208, 190, 210, 191>> }  \* 0xbfd2bed0: one byte off

\* the width the writer of a snapshot with this magic gives an offset
WidthOf(magic) == IF magic = <<208, 190, 210, 190>> THEN 4 ELSE 8

\* snapshots are written whole (cut = 0), or cut in the magic, in the header or
\* right after it, or (cut = -3) short of their last three bytes: the end of
\* the last record's payload, and the terminator if the stream has one
Cuts == {0, 3, 8, 11, 12, -3}

Written(b) ==
    IF b.cut = 0 THEN Snapshot(b.magic, WidthOf(b.magic), b.groups)
    ELSE IF b.cut < 0
    THEN SubSeq(Snapshot(b.magic, WidthOf(b.magic), b.groups), 1,
                Len(Snapshot(b.magic, WidthOf(b.magic), b.groups)) + b.cut)
    ELSE SubSeq(Snapshot(b.magic, WidthOf(b.magic), b.groups), 1, b.cut)

-----------------------------------------------------------------------------
(* The calls a behaviour makes *)

GroupIdents == { Str(n_memory), Str(n_cpu), Str(n_CR), PyInt(0), PyInt(1) }
TagNames == { n_Memory, n_CR, n_regionsCount, n_regionPPN, n_cpu }

RECURSIVE Vectors(_)
\* the index vectors of length <= n over 0..MaxIndex
Vectors(n) ==
    IF n = 0 THEN {<<>>}
    ELSE Vectors(n - 1)
         \cup { Append(v, i) : v \in { w \in Vectors(n - 1) : Len(w) = n - 1 },
                               i \in 0..MaxIndex }

IndexVectors == Vectors(MaxDims)

\* the addresses seeks and absolute reads use: in the file, at its end, past it
Addrs(f) == { 0, 8, 13 } \cup { Len(f) - 1 + k : k \in 0..(MaxPast + 1) }

NoCall == [op |-> "none"]
NoParser == [state |-> "new", version |-> -1, offset_size |-> 0, group_count |-> <<>>]
NoVas == [state |-> "new", why |-> "", runs |-> <<>>, dtb |-> <<>>]

\* what the snapshots are written from; the tail is cut off the snapshots of
\* one group
Builds ==
    { b \in [magic : Magics, groups : Bodies, cut : Cuts] :
        b.cut < 0 => Len(b.groups) = 1 }

Init ==
    /\ built \in Builds
    /\ file = Written(built)
    /\ mode \in {"rb", "r"}
    /\ pos = 0
    /\ parser = NoParser
    /\ last = NoCall
    /\ vas = NoVas

\* a call returns (or raises) res, leaving the cursor at res.pos
Returns(call, res) ==
    /\ pos' = res.pos
    /\ last' = [op |-> call.op, args |-> call, before |-> pos, res |-> res]

\* the Parser object __init__ leaves in self
Constructed(res) ==
    /\ parser' = [state |-> res.state, version |-> res.version,
                  offset_size |-> res.offset_size, group_count |-> res.group_count]
    /\ pos' = res.pos

\* vmsn.Parser(fh)
Construct ==
    /\ parser.state = "new"
    /\ vas.state = "new"
    /\ Constructed(Parser_init(file, mode, pos))
    /\ last' = [op |-> "init"]
    /\ UNCHANGED <<built, file, mode, vas>>

CursorCalls == {"init", "seek", "read", "reada", "reada_byte", "reada_long",
                "reada_long_long", "reada_offset"}

\* the parser is constructed and has served cursor calls only: a behaviour is a
\* construction, then seeks and reads, then one lookup
Open == parser.state = "ok" /\ vas.state = "new" /\ last.op \in CursorCalls

\* Parser.seek(addr)
Seek ==
    /\ Open
    /\ \E addr \in Addrs(file) :
        Returns([op |-> "seek", addr |-> addr], [pos |-> addr])
    /\ UNCHANGED <<built, file, mode, parser, vas>>

\* Parser.read(size)
Read ==
    /\ Open
    /\ \E size \in {GROUP_NAME_SIZE, Len(file)} :
        Returns([op |-> "read", size |-> size], read(file, pos, size))
    /\ UNCHANGED <<built, file, mode, parser, vas>>

\* Parser.reada(addr, size)
Reada ==
    /\ Open
    /\ \E addr \in Addrs(file), size \in {1, 3} :
        Returns([op |-> "reada", addr |-> addr, size |-> size],
                reada(file, pos, addr, size))
    /\ UNCHANGED <<built, file, mode, parser, vas>>

RNames == [w \in {1, 4, 8} |-> IF w = 1 THEN "reada_byte"
                               ELSE IF w = 4 THEN "reada_long" ELSE "reada_long_long"]

\* Parser.reada_byte(addr), reada_long(addr), reada_long_long(addr)
ReadaInt ==
    /\ Open
    /\ \E addr \in Addrs(file), width \in {1, 4, 8} :
        Returns([op |-> RNames[width], addr |-> addr],
                reada_int(file, pos, addr, width))
    /\ UNCHANGED <<built, file, mode, parser, vas>>

\* Parser.reada_offset(addr): the width is self.offset_size
ReadaOffset ==
    /\ Open
    /\ \E addr \in Addrs(file) :
        Returns([op |-> "reada_offset", addr |-> addr],
                reada_int(file, pos, addr, parser.offset_size))
    /\ UNCHANGED <<built, file, mode, parser, vas>>

\* the lookups are made on a parser fresh from its construction: each starts
\* with an absolute seek (search_group, search_tag), so what it returns does not
\* depend on the calls before it
Fresh == Open /\ last.op = "init"

\* group.search_tag(tag, *indices), group being what parser[group_ident] gave
search_tag_in(f, offset_size, group, tag, indices) ==
    IF group.kind # "Group" THEN Raise(group.kind, group.pos)
    ELSE search_tag(f, offset_size, group.tags_offset, tag, indices)

\* parser[group_ident].search_tag(tag, *indices)
SearchTag ==
    /\ Fresh
    /\ \E group_ident \in GroupIdents, tag \in TagNames, indices \in IndexVectors :
        Returns([op |-> "search_tag", group |-> group_ident, tag |-> tag,
                 indices |-> indices],
                search_tag_in(file, parser.offset_size,
                              Parser_getitem(file, pos, parser, group_ident),
                              Str(tag), indices))
    /\ UNCHANGED <<built, file, mode, parser, vas>>

Methods == {"read", "read_byte", "read_long", "read_long_long", "read_offset"}

\* node.read(), node.read_byte(), ... where node is what the subscripts gave:
\* the tag found and what the read of it returned
Tag_call(f, P, node, method) ==
    IF node.kind # "Tag" THEN [node |-> node, kind |-> "no tag", val |-> <<>>, pos |-> node.pos]
    ELSE [node |-> node] @@
         (IF method = "read" THEN Tag_read(f, node.pos, P, node)
          ELSE IF method = "read_offset" THEN Tag_read_offset(f, node.pos, P, node)
          ELSE IF method = "read_byte" THEN Tag_read_byte(f, node.pos, node)
          ELSE IF method = "read_long" THEN Tag_read_long(f, node.pos, node)
          ELSE Tag_read_long_long(f, node.pos, node))

\* parser[group_ident][tag][i1]...[in] and, on the terminal tag it returns, one
\* of the reads
GetAndRead ==
    /\ Fresh
    /\ \E group_ident \in GroupIdents, tag \in TagNames, indices \in IndexVectors,
          method \in Methods :
        Returns([op |-> "Tag", method |-> method, group |-> group_ident,
                 tag |-> tag, indices |-> indices],
                Tag_call(file, parser,
                         lookup(file, pos, parser, group_ident, Str(tag), indices),
                         method))
    /\ UNCHANGED <<built, file, mode, parser, vas>>

\* group_ident in parser
ParserContains ==
    /\ Fresh
    /\ \E group_ident \in GroupIdents :
        Returns([op |-> "Parser.__contains__", group |-> group_ident],
                Parser_contains(file, pos, parser, group_ident))
    /\ UNCHANGED <<built, file, mode, parser, vas>>

\* tag in group, group being what parser[group_ident] gave
contains_in(f, offset_size, group, tag) ==
    IF group.kind # "Group" THEN [kind |-> group.kind, val |-> FALSE, pos |-> group.pos]
    ELSE Group_contains(f, offset_size, group, tag)

\* tag in parser[group_ident]
GroupContains ==
    /\ Fresh
    /\ \E group_ident \in GroupIdents, tag \in TagNames :
        Returns([op |-> "Group.__contains__", group |-> group_ident, tag |-> tag],
                contains_in(file, parser.offset_size,
                            Parser_getitem(file, pos, parser, group_ident), Str(tag)))
    /\ UNCHANGED <<built, file, mode, parser, vas>>

\* tag_index in meta, meta being what group[tag][i1]...[in] gave
contains_meta(f, offset_size, group, meta, tag_index) ==
    IF meta.kind # "MetaTag" THEN [kind |-> "no meta-tag", val |-> FALSE, pos |-> meta.pos]
    ELSE MetaTag_contains(f, offset_size, group, meta, tag_index)

\* tag_index in group[tag][i1]...[in], group being what parser[group_ident] gave
contains_at(f, offset_size, group, tag, indices, tag_index) ==
    contains_meta(f, offset_size, group,
                  lookup_in(f, offset_size, group, tag, indices), tag_index)

\* tag_index in parser[group_ident][tag][i1]...[in]
MetaTagContains ==
    /\ Fresh
    /\ \E group_ident \in GroupIdents, tag \in TagNames, indices \in IndexVectors,
          tag_index \in 0..MaxIndex :
        Returns([op |-> "MetaTag.__contains__", group |-> group_ident, tag |-> tag,
                 indices |-> indices, tag_index |-> tag_index],
                contains_at(file, parser.offset_size,
                            Parser_getitem(file, pos, parser, group_ident),
                            Str(tag), indices, tag_index))
    /\ UNCHANGED <<built, file, mode, parser, vas>>

-----------------------------------------------------------------------------
(* VMWareSnapshotFile.__init__ and read_regions (interfaces/volatility.py).  *)
(* The base class is the framework's: it gives self.runs, empty, and          *)
(* as_assert(cond, msg), which raises when cond is false.  Lines 85-86 are    *)
(* read as the one expression they spell, though the second, indented, line   *)
(* is an "unexpected indent" to Python, which refuses the whole module.       *)

VasRes(state, why, runs, dtb, P, p) ==
    [state |-> state, why |-> why, runs |-> runs, dtb |-> dtb, parser |-> P, pos |-> p]

\* an attribute of what the subscripts gave: a MetaTag has no data_offset,
\* data_size or read_long (AttributeError); an exception goes on
attr_error(node) == IF node.kind = "MetaTag" THEN "AttributeError" ELSE node.kind

\* self.dtb = <the tag>.read_long(), the value read
dtb_value(P, runs, v) ==
    IF v.kind # "int" THEN VasRes(v.kind, "dtb", runs, <<>>, P, v.pos)
    ELSE VasRes("ok", "", runs, v.val, P, v.pos)

\* self.dtb = self.parser["cpu"]["CR"][0][3].read_long(), the tag looked up
dtb_tag(f, P, runs, node) ==
    IF node.kind # "Tag" THEN VasRes(attr_error(node), "dtb", runs, <<>>, P, node.pos)
    ELSE dtb_value(P, runs, Tag_read_long(f, node.pos, node))

\* the end of read_regions: the first core's CR3
read_dtb(f, P, p, runs) ==
    dtb_tag(f, P, runs, lookup(f, p, P, Str(n_cpu), Str(n_CR), <<0, 3>>))

\* the else branch, memory["Memory"][0][0] looked up: one run for all of it
single_run(f, P, node) ==
    IF node.kind # "Tag" THEN VasRes(attr_error(node), "single", <<>>, <<>>, P, node.pos)
    ELSE read_dtb(f, P, node.pos, <<<<0, 0 + node.data_offset, node.data_size>>>>)

\* the else branch of read_regions
single_region(f, P, memory) ==
    single_run(f, P, lookup_in(f, P.offset_size, memory, Str(n_Memory), <<0, 0>>))

\* whether self has a method assert_as: the class and the framework's base
\* define as_assert
has_assert_as == FALSE

\* memory[name][region_i].read_long()
region_long(f, offset_size, memory, name, region_i) ==
    Tag_call(f, [offset_size |-> offset_size],
             lookup_in(f, offset_size, memory, Str(name), <<region_i>>), "read_long")

\* region_i in memory[name]
region_in(f, offset_size, memory, name, region_i) ==
    contains_at(f, offset_size, memory, Str(name), <<>>, region_i)

\* the condition handed to the assertion of lines 79-82
region_present(f, offset_size, memory, region_i) ==
    /\ region_in(f, offset_size, memory, n_regionPPN, region_i).val
    /\ region_in(f, offset_size, memory, n_regionPageNum, region_i).val
    /\ region_in(f, offset_size, memory, n_regionSize, region_i).val

\* lines 84-87: the run of region_i, from the values read
region_run(ppn, pagenum, mem, size) ==
    IF ppn.kind # "int" THEN [err |-> ppn.kind, run |-> <<>>]
    ELSE IF pagenum.kind # "int" THEN [err |-> pagenum.kind, run |-> <<>>]
    ELSE IF mem.kind # "Tag" THEN [err |-> attr_error(mem), run |-> <<>>]
    ELSE IF size.kind # "int" THEN [err |-> size.kind, run |-> <<>>]
    ELSE [err |-> "",
          run |-> <<Val(ppn.val) * PAGE_SIZE,
                    Val(pagenum.val) * PAGE_SIZE + mem.data_offset,
                    Val(size.val) * PAGE_SIZE>>]

RECURSIVE region_loop(_, _, _, _, _, _)
\* self.runs.append((memory_offset, file_offset, length)), and the next region
region_append(f, P, memory, region_i, region_count, runs, r) ==
    IF r.err # "" THEN VasRes(r.err, "region", runs, <<>>, P, 0)
    ELSE region_loop(f, P, memory, region_i + 1, region_count, Append(runs, r.run))

\* for region_i in range(0, region_count), from region_i on
region_loop(f, P, memory, region_i, region_count, runs) ==
    IF region_i >= region_count THEN read_dtb(f, P, 0, runs)
    ELSE IF ~has_assert_as
    THEN VasRes("AttributeError", "assert_as", runs, <<>>, P, memory.pos)
    ELSE IF ~region_present(f, P.offset_size, memory, region_i)
    THEN VasRes("ASAssertionError", "region missing", runs, <<>>, P, 0)
    ELSE region_append(f, P, memory, region_i, region_count, runs,
             region_run(region_long(f, P.offset_size, memory, n_regionPPN, region_i),
                        region_long(f, P.offset_size, memory, n_regionPageNum, region_i),
                        lookup_in(f, P.offset_size, memory, Str(n_Memory), <<0, 0>>),
                        region_long(f, P.offset_size, memory, n_regionSize, region_i)))

\* memory["regionsCount"].read_long() > 0, the value read
regions_count(f, P, memory, v) ==
    IF v.kind # "int" THEN VasRes(v.kind, "regionsCount", <<>>, <<>>, P, v.pos)
    ELSE IF Val(v.val) > 0 THEN region_loop(f, P, memory, 0, Val(v.val), <<>>)
    ELSE single_region(f, P, memory)

\* memory["regionsCount"], the tag looked up
regions_count_tag(f, P, memory, node) ==
    IF node.kind # "Tag"
    THEN VasRes(attr_error(node), "regionsCount", <<>>, <<>>, P, node.pos)
    ELSE regions_count(f, P, memory, Tag_read_long(f, node.pos, node))

\* "regionsCount" in memory and ..., the membership answered
regions_if(f, P, memory, c) ==
    IF c.kind # "bool" THEN VasRes(c.kind, "regionsCount", <<>>, <<>>, P, c.pos)
    ELSE IF c.val
    THEN regions_count_tag(f, P, memory,
                           Group_getitem(f, P.offset_size, memory, Str(n_regionsCount)))
    ELSE single_region(f, P, memory)

\* read_regions, memory = self.parser["memory"] looked up
regions_of(f, P, memory) ==
    IF memory.kind # "Group" THEN VasRes(memory.kind, "memory", <<>>, <<>>, P, memory.pos)
    ELSE regions_if(f, P, memory,
                    Group_contains(f, P.offset_size, memory, Str(n_regionsCount)))

\* VMWareSnapshotFile.read_regions
read_regions(f, P, p) == regions_of(f, P, Parser_getitem(f, p, P, Str(n_memory)))

\* as_assert("Memory" in self.parser["memory"], ...), the membership answered
memory_embedded(f, P, c) ==
    IF c.kind # "bool" THEN VasRes(c.kind, "memory", <<>>, <<>>, P, c.pos)
    ELSE IF ~c.val THEN VasRes("ASAssertionError", "no Memory", <<>>, <<>>, P, c.pos)
    ELSE read_regions(f, P, c.pos)

\* __init__ once the parser is made: a ParserException fails the assertion that
\* tells the framework to try another address space
vas_parser(f, P) ==
    IF P.state = "ParserException"
    THEN VasRes("ASAssertionError", "not a snapshot", <<>>, <<>>, P, P.pos)
    ELSE IF P.state # "ok" THEN VasRes(P.state, "parser", <<>>, <<>>, P, P.pos)
    ELSE memory_embedded(f, P,
             contains_in(f, P.offset_size, Parser_getitem(f, P.pos, P, Str(n_memory)),
                         Str(n_Memory)))

\* VMWareSnapshotFile.__init__(base, config)
VMWareSnapshotFile_init(f, m, p) == vas_parser(f, Parser_init(f, m, p))

\* the address space __init__ leaves, or the exception it raises
Built(res) ==
    /\ Constructed(res.parser)
    /\ vas' = [state |-> res.state, why |-> res.why, runs |-> res.runs, dtb |-> res.dtb]
    /\ last' = [op |-> "VMWareSnapshotFile"]

\* VMWareSnapshotFile(base, config) over the file
NewAddressSpace ==
    /\ parser.state = "new"
    /\ vas.state = "new"
    /\ Built(VMWareSnapshotFile_init(file, mode, pos))
    /\ UNCHANGED <<built, file, mode>>

Next ==
    \/ Construct
    \/ Seek
    \/ Read
    \/ Reada
    \/ ReadaInt
    \/ ReadaOffset
    \/ SearchTag
    \/ GetAndRead
    \/ ParserContains
    \/ GroupContains
    \/ MetaTagContains
    \/ NewAddressSpace

Spec == Init /\ [][Next]_vars

-----------------------------------------------------------------------------
(* What the snapshot was written from, for the claims to compare with *)

ValidMagics == { <<208, 190, 210, 190>>, <<209, 186, 209, 186>>,
                 <<210, 190, 210, 190>>, <<211, 190, 211, 190>> }

\* a whole snapshot with a magic the format knows, behind a binary stream
WellFormed == built.cut = 0 /\ built.magic \in ValidMagics /\ IsBinary(mode)

First(S) == IF S = {} THEN 0 ELSE CHOOSE i \in S : \A j \in S : i <= j

\* the number of the written group an identifier names, 0 if none
GroupNo(ident) ==
    IF ident.t = "int"
    THEN (IF ident.v < Len(built.groups) THEN ident.v + 1 ELSE 0)
    ELSE First({ i \in 1..Len(built.groups) : built.groups[i].name = ident.v })

IsPrefix(a, b) == Len(a) <= Len(b) /\ SubSeq(b, 1, Len(a)) = a

\* the first record named name whose indices equal or extend indices, 0 if none
FirstMatch(tags, name, indices) ==
    First({ i \in 1..Len(tags) : tags[i].name = name /\ IsPrefix(indices, tags[i].idx) })

\* the record written as (name, idx), 0 if none
RecNo(tags, name, idx) ==
    First({ i \in 1..Len(tags) : tags[i].name = name /\ tags[i].idx = idx })

RECURSIVE RecOffset(_, _)
\* where the ri-th record of the gi-th group was written
RecOffset(gi, ri) ==
    IF ri = 1 THEN StreamOffset(built.groups, WidthOf(built.magic), gi)
    ELSE RecOffset(gi, ri - 1)
         + Len(RecBytes(built.groups[gi].tags[ri - 1], WidthOf(built.magic)))

\* where its payload was written
PayloadOffset(gi, ri) ==
    RecOffset(gi, ri)
    + Len(RecBytes(built.groups[gi].tags[ri], WidthOf(built.magic)))
    - Len(built.groups[gi].tags[ri].payload)

\* the little-endian number in the first w bytes of s (for the small numbers written)
RECURSIVE Number(_, _)
Number(s, w) == IF w = 0 THEN 0 ELSE s[1] + 256 * Number(Tail(s), w - 1)

-----------------------------------------------------------------------------
(* C1 *)

\* C1: search_tag's result is fixed by the first record of the requested name
\* whose indices equal or extend the request (a Tag with that record's payload
\* offset, sizes and compressed flag, or a MetaTag with the requested prefix); a
\* record of that name with other indices is skipped; None at the terminator.
C1_FirstMatchDecides ==
    (/\ last.op = "search_tag"
     /\ WellFormed
     /\ GroupNo(last.args.group) # 0
     /\ built.groups[GroupNo(last.args.group)].term)
    => LET g    == GroupNo(last.args.group)
           tags == built.groups[g].tags
           i    == FirstMatch(tags, last.args.tag, last.args.indices)
       IN  IF i = 0 THEN last.res.kind = "None"
           ELSE IF tags[i].idx = last.args.indices
           THEN /\ last.res.kind = "Tag"
                /\ last.res.data_offset = PayloadOffset(g, i)
                /\ last.res.data_size = Len(tags[i].payload)
                /\ last.res.data_mem_size = Len(tags[i].payload)
                /\ last.res.compressed = (tags[i].form = "compressed")
           ELSE /\ last.res.kind = "MetaTag"
                /\ last.res.indices = last.args.indices

-----------------------------------------------------------------------------
(* C2 *)

\* C2: every written (name, indices, payload) is recovered by
\* parser[group][name][i1]...[in], wherever its record sits, and read() on the
\* tag recovered returns the payload written.
C2_RoundTrip ==
    (/\ last.op = "Tag"
     /\ last.args.method = "read"
     /\ WellFormed
     /\ GroupNo(last.args.group) # 0
     /\ built.groups[GroupNo(last.args.group)].term
     /\ RecNo(built.groups[GroupNo(last.args.group)].tags, last.args.tag,
              last.args.indices) # 0)
    => LET tags == built.groups[GroupNo(last.args.group)].tags
           i    == RecNo(tags, last.args.tag, last.args.indices)
       IN  /\ last.res.node.kind = "Tag"
           /\ last.res.kind = "bytes"
           /\ last.res.val = tags[i].payload

-----------------------------------------------------------------------------
(* C3 *)

\* the version the format gives the magic at offset 0, -1 if it is none
MagicVersion ==
    IF SubSeq(file, 1, 4) = <<208, 190, 210, 190>> THEN 0
    ELSE IF SubSeq(file, 1, 4) = <<209, 186, 209, 186>> THEN 1
    ELSE IF SubSeq(file, 1, 4) = <<210, 190, 210, 190>> THEN 2
    ELSE IF SubSeq(file, 1, 4) = <<211, 190, 211, 190>> THEN 3
    ELSE -1

\* a failure for any other prefix, and what a constructed parser reports
C3_Mapping ==
    /\ MagicVersion = -1 => parser.state = "ParserException"
    /\ parser.state = "ok" =>
        /\ parser.version = MagicVersion
        /\ parser.offset_size = (IF MagicVersion = 0 THEN 4 ELSE 8)
        /\ Val(parser.group_count) = Number(SubSeq(file, 9, 12), 4)

\* construction has run over a binary stream with a 32-bit prefix
C3_Constructed == parser.state # "new" /\ IsBinary(mode) /\ Len(file) >= 4

\* C3 as stated: over any binary stream with a 32-bit prefix, construction
\* succeeds exactly when the prefix is one of the four magics (and reports the
\* version, the offset width and the group count), and fails with
\* ParserException otherwise.
C3_AnyStream ==
    C3_Constructed =>
        /\ (parser.state = "ok") <=> (MagicVersion # -1)
        /\ C3_Mapping

\* C3, amended: construction succeeds exactly when the prefix is one of the four
\* magics and the stream holds the whole 12-byte header (short of it, the read
\* of the group count fails); it reports version, offset width and group count
\* as stated, fails with ParserException for any other prefix, and version and
\* offset width, once set, are never changed.
C3_HeaderMapsToVersion ==
    /\ [](C3_Constructed =>
            /\ (parser.state = "ok")
               <=> (MagicVersion # -1 /\ Len(file) >= HEADER_SIZE)
            /\ (MagicVersion # -1 /\ Len(file) < HEADER_SIZE)
               => parser.state = "struct.error"
            /\ C3_Mapping)
    /\ [][parser.state = "ok" =>
            /\ parser'.version = parser.version
            /\ parser'.offset_size = parser.offset_size]_vars

\* a version 2 parser (0xbed2bed2) has served a lookup
C3_Witness ==
    /\ parser.state = "ok"
    /\ parser.version = 2
    /\ parser.offset_size = 8
    /\ SubSeq(file, 1, 4) = <<210, 190, 210, 190>>
    /\ last.op = "search_tag"
    /\ last.res.kind = "Tag"

-----------------------------------------------------------------------------
(* C4 *)

\* whether a lookup succeeded, and whether it reported that nothing was found
Succeeded(node) == node.kind \in {"Group", "Tag", "MetaTag"}
NotFound(node) == node.kind \in {"KeyError", "None"}

\* a membership test answers true if the lookup succeeds, false if it finds nothing
Agrees(res, node) ==
    /\ Succeeded(node) => (res.kind = "bool" /\ res.val)
    /\ NotFound(node) => (res.kind = "bool" /\ ~res.val)

\* C4: at a parser, a group and a meta-tag, the membership test of a key is
\* true iff the lookup of that key succeeds and false iff it finds nothing.
C4_MembershipIsLookup ==
    /\ last.op = "Parser.__contains__" =>
         Agrees(last.res, Parser_getitem(file, pos, parser, last.args.group))
    /\ (last.op = "Group.__contains__" /\ last.res.kind = "bool") =>
         Agrees(last.res,
                lookup(file, pos, parser, last.args.group, Str(last.args.tag), <<>>))
    /\ (last.op = "MetaTag.__contains__" /\ last.res.kind = "bool") =>
         Agrees(last.res,
                lookup(file, pos, parser, last.args.group, Str(last.args.tag),
                       Append(last.args.indices, last.args.tag_index)))

-----------------------------------------------------------------------------
(* C8 *)

ReadaCalls == {"reada", "reada_byte", "reada_long", "reada_long_long", "reada_offset"}

\* C8: a reada, reada_byte, reada_long, reada_long_long or reada_offset call
\* leaves the cursor where it was before the call, whatever the address and
\* whether it returned bytes or a number, came up short or failed to decode
\* (and so does the construction, which reads the header with reada_long).
C8_ReadaKeepsCursor ==
    /\ [](last.op \in ReadaCalls => pos = last.before)
    /\ [][last'.op \in ReadaCalls \cup {"init"} => pos' = pos]_vars

\* the cursor is off the start, and a 4-byte read past the end of the stream
\* has failed to decode
C8_Witness ==
    /\ last.op = "reada_long"
    /\ last.args.addr >= Len(file)
    /\ last.res.err = "struct.error"
    /\ pos > 0
    /\ pos # last.args.addr

-----------------------------------------------------------------------------
(* C9 *)

Widths == [m \in {"read_byte", "read_long", "read_long_long", "read_offset"} |->
             IF m = "read_byte" THEN 1
             ELSE IF m = "read_long" THEN 4
             ELSE IF m = "read_long_long" THEN 8
             ELSE parser.offset_size]

\* the little-endian number in a string: a byte, or its 16-bit halves, low first
Unpacked(s) ==
    IF Len(s) = 1 THEN s[1]
    ELSE [i \in 1..(Len(s) \div 2) |-> s[2 * i - 1] + 256 * s[2 * i]]

\* C9: a typed read of a tag fails with a size error when the payload is
\* shorter than the width read, and otherwise returns the little-endian number
\* in the first bytes of the payload: 1 for read_byte, 4 for read_long, 8 for
\* read_long_long, the parser's offset width for read_offset.
C9_TypedReadsChecked ==
    (/\ last.op = "Tag"
     /\ last.args.method # "read"
     /\ last.res.node.kind = "Tag")
    => LET w    == Widths[last.args.method]
           node == last.res.node
       IN  IF node.data_size < w THEN last.res.kind = "TypeError"
           ELSE /\ last.res.kind = "int"
                /\ last.res.val
                   = Unpacked(SubSeq(file, node.data_offset + 1, node.data_offset + w))

-----------------------------------------------------------------------------
(* C5, C6, C7, C10 *)

\* the memory and the cpu group written, 0 if none
MemNo == GroupNo(Str(n_memory))
CpuNo == GroupNo(Str(n_cpu))

\* the record (name, idx) of the written group gi, 0 if none
RecIn(gi, name, idx) ==
    IF gi = 0 THEN 0 ELSE RecNo(built.groups[gi].tags, name, idx)

\* the u32 written as (name, idx) in group gi, -1 if it is not there or not 4 bytes
U32In(gi, name, idx) ==
    IF RecIn(gi, name, idx) = 0 THEN -1
    ELSE IF Len(built.groups[gi].tags[RecIn(gi, name, idx)].payload) # 4 THEN -1
    ELSE Number(built.groups[gi].tags[RecIn(gi, name, idx)].payload, 4)

\* R, the region count written; -1 if there is none
RegionsCount == U32In(MemNo, n_regionsCount, <<>>)

\* region i has its three components
RegionWritten(i) ==
    /\ U32In(MemNo, n_regionPPN, <<i>>) # -1
    /\ U32In(MemNo, n_regionPageNum, <<i>>) # -1
    /\ U32In(MemNo, n_regionSize, <<i>>) # -1

\* a snapshot the address space is built over: whole, with Memory[0][0]
HasMemory == WellFormed /\ MemNo # 0 /\ RecIn(MemNo, n_Memory, <<0, 0>>) # 0

MemOffset == PayloadOffset(MemNo, RecIn(MemNo, n_Memory, <<0, 0>>))
MemSize == Len(built.groups[MemNo].tags[RecIn(MemNo, n_Memory, <<0, 0>>)].payload)

\* the run the code is to build for region i
ExpectedRun(i) ==
    << U32In(MemNo, n_regionPPN, <<i>>) * PAGE_SIZE,
       U32In(MemNo, n_regionPageNum, <<i>>) * PAGE_SIZE + MemOffset,
       U32In(MemNo, n_regionSize, <<i>>) * PAGE_SIZE >>

\* C5: with regionsCount = R > 0 and every region's three components there,
\* the run table is the R runs (regionPPN[i]*4096,
\* regionPageNum[i]*4096 + offset of Memory[0][0], regionSize[i]*4096), in order.
C5_RunPerRegion ==
    (/\ vas.state # "new"
     /\ HasMemory
     /\ RegionsCount > 0
     /\ \A i \in 0..(RegionsCount - 1) : RegionWritten(i))
    => vas.runs = [k \in 1..RegionsCount |-> ExpectedRun(k - 1)]

\* C6: with regionsCount absent or zero, the run table is the one run
\* (0, offset of Memory[0][0], size of Memory[0][0]).
C6_SingleRun ==
    (/\ vas.state # "new"
     /\ HasMemory
     /\ \/ RecIn(MemNo, n_regionsCount, <<>>) = 0
        \/ RegionsCount = 0)
    => vas.runs = << <<0, MemOffset, MemSize>> >>

\* the run table is built and construction has gone on to CR3
AtCR3 == vas.state = "ok" \/ (vas.state # "new" /\ vas.why = "dtb")

\* C7: construction sets dtb to the u32 of CR[0][3] whenever the cpu group has
\* that record with at least 4 bytes, and fails, yielding no address space,
\* when the cpu group or the record is absent.
C7_CR3 ==
    (AtCR3 /\ HasMemory) =>
        IF U32In(CpuNo, n_CR, <<0, 3>>) # -1
        THEN /\ vas.state = "ok"
             /\ vas.dtb = Unpacked(built.groups[CpuNo].tags[RecIn(CpuNo, n_CR, <<0, 3>>)].payload)
        ELSE RecIn(CpuNo, n_CR, <<0, 3>>) = 0 => vas.state # "ok"

\* C10: with regionsCount = R > 0, construction fails as a corrupt region table
\* when some region below R lacks one of its three components, and only then;
\* a failed construction hands out no address space.
C10_CorruptRegionTable ==
    (vas.state # "new" /\ HasMemory /\ RegionsCount > 0) =>
        ((vas.state = "ASAssertionError" /\ vas.why = "region missing")
         <=> (\E i \in 0..(RegionsCount - 1) : ~RegionWritten(i)))

-----------------------------------------------------------------------------
(* C11 *)

\* the snapshot has every group slot and a magic the format knows; its last
\* bytes may be missing
Scannable == built.cut <= 0 /\ built.magic \in ValidMagics /\ IsBinary(mode)

\* the tag a lookup returned: what search_tag returned, or the node a read was
\* made on
Returned == IF last.op = "Tag" THEN last.res.node ELSE last.res

\* the lookup asked for a record whose payload, as declared, does not end
\* within the file
AsksPastEnd ==
    /\ last.op \in {"search_tag", "Tag"}
    /\ Scannable
    /\ GroupNo(last.args.group) # 0
    /\ RecIn(GroupNo(last.args.group), last.args.tag, last.args.indices) # 0
    /\ PayloadOffset(GroupNo(last.args.group),
                     RecIn(GroupNo(last.args.group), last.args.tag, last.args.indices))
       + Len(built.groups[GroupNo(last.args.group)]
               .tags[RecIn(GroupNo(last.args.group), last.args.tag, last.args.indices)]
               .payload)
       > Len(file)

\* C11: a terminal tag a lookup returns has its payload within the file
\* (data_offset + data_size <= file length), and a lookup of a record whose
\* declared payload runs past the end of the file ends in an error: it returns
\* neither a tag nor a meta-tag nor None.
C11_PayloadWithinFile ==
    /\ (last.op \in {"search_tag", "Tag"} /\ Returned.kind = "Tag")
       => Returned.data_offset + Returned.data_size <= Len(file)
    /\ AsksPastEnd => Returned.kind \notin {"Tag", "MetaTag", "None"}

\* Memory[0][0] of a snapshot short of its last bytes was asked for, and the
\* scan failed on the read of what follows the payload
C11_Witness ==
    /\ AsksPastEnd
    /\ last.op = "search_tag"
    /\ last.args.tag = n_Memory
    /\ last.args.indices = <<0, 0>>
    /\ last.res.kind = "struct.error"

-----------------------------------------------------------------------------
(* C12 *)

\* C12: a group lookup (here through "group_ident in parser", which returns
\* what search_group found) always returns, with NotFound exactly when no slot
\* has the requested name or index, and leaves the cursor within the 64-byte
\* name field of a slot: it reads at most 64 name bytes per slot and never the
\* slot's offset field or beyond.
C12_GroupLookupBounded ==
    (last.op = "Parser.__contains__" /\ built.magic \in ValidMagics /\ IsBinary(mode))
    => /\ last.res.kind = "bool"
       /\ built.cut <= 0 => (last.res.val <=> GroupNo(last.args.group) = 0)
       /\ pos >= HEADER_SIZE
       /\ (pos - HEADER_SIZE) % GROUP_SIZE <= GROUP_NAME_SIZE

====
